---- MODULE Spec2Model ----
(***************************************************************************)
(* The XMLHttpRequest emulator of src/src/shims/XMLHttpRequest.js as a     *)
(* state machine.  One emulator instance, its private variables and public *)
(* fields, the transport requests it has issued that can still call back,  *)
(* and the transport's callbacks (response, data, end, error) delivered    *)
(* one at a time.                                                          *)
(*                                                                         *)
(* Strings the code inspects character by character (header names) are     *)
(* sequences of one-character strings; other strings are sequences of      *)
(* tokens, so that concatenation is sequence concatenation.  A falsy       *)
(* string ('' / undefined / null body) is the empty sequence.              *)
(***************************************************************************)
EXTENDS Integers, Sequences, FiniteSets, Bags, TLC

(* ------------------------------ bounds -------------------------------- *)

\* Requests the instance no longer holds a handle to (aborted, or replaced
\* by a later request) that the transport may still call back for.
MaxOthers == 1

\* Body chunks the transport delivers for one response.
MaxChunks == 2
\* Most entries the log of an observed exchange holds before a further call
\* or callback is logged.
MaxLog == 12

\* Callbacks registered through addEventListener at one time, over all
\* events.
MaxListeners == 2

\* Redirect responses (302, 303, 307) the transport delivers in one run
\* under fair delivery.
MaxRedirects == 2

(* ----------------------------- constants ------------------------------ *)

UNSENT == 0
OPENED == 1
HEADERS_RECEIVED == 2
LOADING == 3
DONE == 4

\* this.status = null is modelled as status 0.
StatusNull == 0
StatusUnavailable == 503

UserAgentName == <<"U","s","e","r","-","A","g","e","n","t">>
AcceptName == <<"A","c","c","e","p","t">>
HostName == <<"H","o","s","t">>
AuthorizationName == <<"A","u","t","h","o","r","i","z","a","t","i","o","n">>
ContentLengthName == <<"C","o","n","t","e","n","t","-","L","e","n","g","t","h">>
ContentTypeName == <<"C","o","n","t","e","n","t","-","T","y","p","e">>

defaultHeaders ==
  [n \in {UserAgentName, AcceptName} |->
     IF n = UserAgentName THEN <<"node-XMLHttpRequest">> ELSE <<"*/*">>]

forbiddenRequestHeaders ==
  << <<"a","c","c","e","p","t","-","c","h","a","r","s","e","t">>,
     <<"a","c","c","e","p","t","-","e","n","c","o","d","i","n","g">>,
     <<"a","c","c","e","s","s","-","c","o","n","t","r","o","l","-","r","e","q","u","e","s","t","-","h","e","a","d","e","r","s">>,
     <<"a","c","c","e","s","s","-","c","o","n","t","r","o","l","-","r","e","q","u","e","s","t","-","m","e","t","h","o","d">>,
     <<"c","o","n","n","e","c","t","i","o","n">>,
     <<"c","o","n","t","e","n","t","-","l","e","n","g","t","h">>,
     <<"c","o","n","t","e","n","t","-","t","r","a","n","s","f","e","r","-","e","n","c","o","d","i","n","g">>,
     <<"c","o","o","k","i","e">>,
     <<"c","o","o","k","i","e","2">>,
     <<"d","a","t","e">>,
     <<"e","x","p","e","c","t">>,
     <<"h","o","s","t">>,
     <<"k","e","e","p","-","a","l","i","v","e">>,
     <<"o","r","i","g","i","n">>,
     <<"r","e","f","e","r","e","r">>,
     <<"t","e">>,
     <<"t","r","a","i","l","e","r">>,
     <<"t","r","a","n","s","f","e","r","-","e","n","c","o","d","i","n","g">>,
     <<"u","p","g","r","a","d","e">>,
     <<"v","i","a">> >>

forbiddenRequestMethods == <<"TRACE", "TRACK", "CONNECT">>

(* --------------------------- string helpers --------------------------- *)

UpperLetters ==
  <<"A","B","C","D","E","F","G","H","I","J","K","L","M",
    "N","O","P","Q","R","S","T","U","V","W","X","Y","Z">>
LowerLetters ==
  <<"a","b","c","d","e","f","g","h","i","j","k","l","m",
    "n","o","p","q","r","s","t","u","v","w","x","y","z">>

\* String.prototype.toLowerCase, character by character.
toLowerCase(str) ==
  [i \in 1..Len(str) |->
     IF \E k \in 1..Len(UpperLetters) : UpperLetters[k] = str[i]
     THEN LowerLetters[CHOOSE k \in 1..Len(UpperLetters) : UpperLetters[k] = str[i]]
     ELSE str[i]]

\* Array.prototype.indexOf(x) === -1
NotIn(arr, x) == \A k \in 1..Len(arr) : arr[k] # x

\* A JavaScript string is truthy iff it is not empty.
Truthy(str) == str # <<>>

(* ------------------------------- inputs ------------------------------- *)

\* Arguments the caller passes and values the transport delivers.
\* open(method, url, async, user): async is "undefined" when omitted, user
\* is empty when omitted.
OpenCalls ==
  { <<"GET", "http://a/", "undefined", <<>>>>,
    <<"POST", "https://b:8443/p?q", "true", <<"u">>>>,
    <<"GET", "http://a/", "false", <<>>>>,
    <<"GET", "file:///f", "true", <<>>>>,
    <<"TRACE", "http://a/", "true", <<>>>> }
Bodies == {<<>>, <<"d">>}
HeaderNames == { <<"C","o","o","k","i","e">>, HostName, <<"X","-","A">> }
HeaderValues == { <<"x">> }
StatusCodes == {200, 302, 303, 307}
Locations == {"http://a/"}
\* The first chunk of a body is empty or the text "1", a later one is empty
\* or the text "2".
Chunks(k) == {<<>>, IF k = 1 THEN <<"1">> ELSE <<"2">>}
ResponseHeaderSets ==
  { << [n |-> <<"c","o","n","t","e","n","t","-","t","y","p","e">>, v |-> <<"t">>],
       [n |-> <<"s","e","t","-","c","o","o","k","i","e">>, v |-> <<"k">>] >> }
QueriedNames ==
  { <<"C","o","n","t","e","n","t","-","T","y","p","e">>, <<"x","-","a">> }
\* Events the caller listens to, and the functions it registers for them or
\* assigns to an on<event> field: "f" and "g" touch nothing of the
\* instance, "once" removes itself with removeEventListener(event, once)
\* and "addF" calls addEventListener(event, f), for the event each is
\* called for.
EventNames == {"readystatechange", "load"}
Callbacks == {"f", "once", "addF"}
SlotValues == {"null", "g"}
Behaviour(callback) ==
  CASE callback = "once" -> "removeEventListener"
    [] callback = "addF" -> "addEventListener"
    [] OTHER -> "none"

(* -------------------------- URL collaborator -------------------------- *)

\* Url.parse of ./url, on the URLs of the model: the fields send() and the
\* redirect branch read.
UrlParse(u) ==
  CASE u = "http://a/" ->
         [protocol |-> "http:", hostname |-> <<"a">>, port |-> <<>>,
          pathname |-> "/", search |-> "", path |-> "/"]
    [] u = "https://b:8443/p?q" ->
         [protocol |-> "https:", hostname |-> <<"b">>, port |-> <<"8443">>,
          pathname |-> "/p", search |-> "?q", path |-> "/p?q"]
    [] u = "file:///f" ->
         [protocol |-> "file:", hostname |-> <<>>, port |-> <<>>,
          pathname |-> "/f", search |-> "", path |-> "/f"]
    [] OTHER ->
         [protocol |-> "ftp:", hostname |-> <<"c">>, port |-> <<>>,
          pathname |-> "/", search |-> "", path |-> "/"]

\* Buffer.byteLength(data) as the decimal string the header carries.
ByteLength(data) == IF Len(data) = 0 THEN <<"0">> ELSE <<"1">>

(* ------------------------------- state -------------------------------- *)

VARIABLES
  readyState,          \* this.readyState
  status,              \* this.status (StatusNull for null)
  responseText,        \* this.responseText
  settings,            \* var settings
  headers,             \* var headers: header name -> value
  disableHeaderCheck,  \* var disableHeaderCheck
  sendFlag,            \* var sendFlag
  errorFlag,           \* var errorFlag
  request,             \* var request: the request object held, if any
  response,            \* var response: the last response object received
  others,              \* bag of the requests still live in the transport
                       \* that var request no longer refers to
  listeners,           \* var listeners: event name -> callbacks, in order
  onSlots,             \* this['on' + event], "null" when not a function
  trace,               \* what the observer of the run has logged (see Observe)
  call                 \* the last call or callback, its arguments and outcome

vars ==
  <<readyState, status, responseText, settings, headers,
    disableHeaderCheck, sendFlag, errorFlag, request, response, others,
    listeners, onSlots, trace, call>>

\* The instance as one value, so that a handler's statements compose.
\* Of one call or callback it also holds the options handed to the
\* transport (issued), what listeners were given to read (seen), the
\* callbacks invoked (invoked) and whether a TypeError thrown by
\* dispatchEvent is unwinding the call (fault).
Cur ==
  [readyState |-> readyState, status |-> status,
   responseText |-> responseText, settings |-> settings, headers |-> headers,
   disableHeaderCheck |-> disableHeaderCheck, sendFlag |-> sendFlag,
   errorFlag |-> errorFlag, request |-> request, response |-> response,
   others |-> others, listeners |-> listeners, onSlots |-> onSlots,
   trace |-> trace, issued |-> <<>>, seen |-> <<>>, invoked |-> <<>>,
   fault |-> FALSE]

Commit(s) ==
  /\ readyState' = s.readyState
  /\ status' = s.status
  /\ responseText' = s.responseText
  /\ settings' = s.settings
  /\ headers' = s.headers
  /\ disableHeaderCheck' = s.disableHeaderCheck
  /\ sendFlag' = s.sendFlag
  /\ errorFlag' = s.errorFlag
  /\ request' = s.request
  /\ response' = s.response
  /\ others' = s.others
  /\ listeners' = s.listeners
  /\ onSlots' = s.onSlots
  /\ trace' = s.trace

\* A request object as the transport sees it: which callback comes next,
\* whether abort() was called on it, how many body chunks its response has
\* delivered.  NoRequest is var request holding undefined or null;
\* FinishedRequest is a request that has delivered its last callback.
NoRequest == [phase |-> "none", aborted |-> FALSE, chunks |-> 0]
NewRequest == [phase |-> "pending", aborted |-> FALSE, chunks |-> 0]
FinishedRequest == [phase |-> "finished", aborted |-> FALSE, chunks |-> 0]
IsLive(req) == req.phase \in {"pending", "headers"}

\* var response before any response has arrived (undefined).
NoResponse == [defined |-> FALSE, headers |-> <<>>]

\* Outcome of a call: the error it threw ("" for none) and what it returned.
RetUndefined == [t |-> "undefined", b |-> FALSE, v |-> <<>>]
RetNull == [t |-> "null", b |-> FALSE, v |-> <<>>]
RetBool(b) == [t |-> "boolean", b |-> b, v |-> <<>>]
RetString(v) == [t |-> "string", b |-> FALSE, v |-> v]

\* The record of a call or callback: what it threw or returned.
Called(op, r) == [op |-> op, err |-> r.err, ret |-> r.ret]

Init ==
  /\ readyState = UNSENT
  /\ status = StatusNull
  /\ responseText = <<>>
  /\ settings = [method |-> "undefined", url |-> "undefined",
                 async |-> "undefined", user |-> <<>>]
  /\ headers = defaultHeaders
  /\ disableHeaderCheck = FALSE
  /\ sendFlag = FALSE
  /\ errorFlag = FALSE
  /\ request = NoRequest
  /\ response = NoResponse
  /\ others = EmptyBag
  /\ listeners = [event \in {} |-> <<>>]
  /\ onSlots = [event \in EventNames |-> "null"]
  /\ trace = <<>>
  /\ call = [op |-> "new", err |-> "", ret |-> RetUndefined]

(* -------------------------- private methods --------------------------- *)

\* isAllowedHttpHeader comparing the name as given, not lower-cased.
isAllowedHttpHeader_CaseSensitive(s, header) ==
  \/ s.disableHeaderCheck
  \/ (Truthy(header) /\ NotIn(forbiddenRequestHeaders, header))

isAllowedHttpHeader(s, header) ==
  \/ s.disableHeaderCheck
  \/ (Truthy(header) /\ NotIn(forbiddenRequestHeaders, toLowerCase(header)))

isAllowedHttpMethod(method) ==
  method # "" /\ NotIn(forbiddenRequestMethods, method)

\* An entry of the observer's log: an event dispatched, with the readyState
\* and errorFlag in force when it was dispatched, or a call or callback,
\* with its arguments.
Event(event, state, error) ==
  [k |-> "event", e |-> event, s |-> state, x |-> error, a |-> <<>>]
CallEntry(op, arg) ==
  [k |-> "call", e |-> op, s |-> UNSENT, x |-> FALSE, a |-> arg]

\* The public fields a listener reads when it is called for an event.
Seen(s, event) == [e |-> event, readyState |-> s.readyState, status |-> s.status]

\* A callback invoked by dispatchEvent for an event, as the on<event> field
\* ("slot") or as a registered listener.
Invocation(kind, event, callback) == [kind |-> kind, e |-> event, c |-> callback]

addEventListener(s, event, callback) ==
  [s EXCEPT !.listeners =
     [e \in DOMAIN @ \cup {event} |->
        IF e = event
        THEN (IF event \in DOMAIN @ THEN Append(@[event], callback) ELSE <<callback>>)
        ELSE @[e]]]

removeEventListener(s, event, callback) ==
  IF event \in DOMAIN s.listeners
  THEN [s EXCEPT !.listeners[event] = SelectSeq(@, LAMBDA ev : ev # callback)]
  ELSE s

\* The body of a callback, run for an event.
invoke(s, kind, event, callback) ==
  LET s1 == [s EXCEPT !.invoked = Append(@, Invocation(kind, event, callback))]
  IN CASE Behaviour(callback) = "removeEventListener" ->
            removeEventListener(s1, event, callback)
       [] Behaviour(callback) = "addEventListener" ->
            addEventListener(s1, event, "f")
       [] OTHER -> s1

\* for (var i = 0, len = listeners[event].length; i < len; i++) of
\* dispatchEvent: round[i] is the instance after the i-th round (counted
\* from 1).  Reading listeners[event][i] past the end of the array gives
\* undefined, and undefined.call throws a TypeError, which ends the loop.
callListeners(s, event, len) ==
  LET round[i \in 0..len] ==
        IF i = 0
        THEN s
        ELSE LET before == round[i - 1]
             IN IF before.fault
                THEN before
                ELSE IF i > Len(before.listeners[event])
                THEN [before EXCEPT !.fault = TRUE]
                ELSE invoke(before, "listener", event, before.listeners[event][i])
  IN round[len]

\* dispatchEvent: the event, as a listener would observe it, then the
\* on<event> field if it is a function, then the registered listeners.  A
\* TypeError thrown on the way ends every call it was made from: nothing
\* is dispatched while s.fault.
dispatchEvent(s, event) ==
  IF s.fault
  THEN s
  ELSE LET s1 == [s EXCEPT !.trace = Append(@, Event(event, s.readyState, s.errorFlag)),
                           !.seen = Append(@, Seen(s, event))]
           s2 == IF event \in DOMAIN s1.onSlots /\ s1.onSlots[event] # "null"
                 THEN invoke(s1, "slot", event, s1.onSlots[event])
                 ELSE s1
       IN IF ~s2.fault /\ event \in DOMAIN s2.listeners
          THEN callListeners(s2, event, Len(s2.listeners[event]))
          ELSE s2

\* setState without the test that the state changes.
setState_Always(s, state) ==
  LET s1 == [s EXCEPT !.readyState = state]
      s2 == IF \/ s1.settings.async = "true"
               \/ s1.readyState < OPENED
               \/ s1.readyState = DONE
            THEN dispatchEvent(s1, "readystatechange")
            ELSE s1
  IN IF s2.readyState = DONE /\ ~s2.errorFlag
     THEN dispatchEvent(dispatchEvent(s2, "load"), "loadend")
     ELSE s2

\* setState dispatching readystatechange whatever settings.async is.
setState_Ungated(s, state) ==
  IF s.readyState # state
  THEN LET s1 == [s EXCEPT !.readyState = state]
           s2 == dispatchEvent(s1, "readystatechange")
       IN IF s2.readyState = DONE /\ ~s2.errorFlag
          THEN dispatchEvent(dispatchEvent(s2, "load"), "loadend")
          ELSE s2
  ELSE s

setState(s, state) ==
  IF s.readyState # state
  THEN LET s1 == [s EXCEPT !.readyState = state]
           s2 == IF \/ s1.settings.async = "true"
                    \/ s1.readyState < OPENED
                    \/ s1.readyState = DONE
                 THEN dispatchEvent(s1, "readystatechange")
                 ELSE s1
       IN IF s2.readyState = DONE /\ ~s2.errorFlag
          THEN dispatchEvent(dispatchEvent(s2, "load"), "loadend")
          ELSE s2
  ELSE s

\* handleError leaving errorFlag as it was.
handleError_NoErrorFlag(s) ==
  setState([s EXCEPT !.status = StatusUnavailable,
                     !.responseText = <<"stack">>],
           DONE)

handleError(s) ==
  setState([s EXCEPT !.status = StatusUnavailable,
                     !.responseText = <<"stack">>,
                     !.errorFlag = TRUE],
           DONE)

\* abort leaving errorFlag as it was.
abort_NoErrorFlag(s) ==
  LET s1 == IF s.request # NoRequest
            THEN [s EXCEPT !.others =
                             IF IsLive(s.request)
                             THEN @ (+) SetToBag({[s.request EXCEPT !.aborted = TRUE]})
                             ELSE @,
                           !.request = NoRequest]
            ELSE s
      s2 == [s1 EXCEPT !.headers = defaultHeaders,
                       !.responseText = <<>>]
      s3 == IF /\ s2.readyState # UNSENT
               /\ (s2.readyState # OPENED \/ s2.sendFlag)
               /\ s2.readyState # DONE
            THEN setState([s2 EXCEPT !.sendFlag = FALSE], DONE)
            ELSE s2
  IN IF s3.fault THEN s3 ELSE [s3 EXCEPT !.readyState = UNSENT]

abort(s) ==
  LET s1 == IF s.request # NoRequest
            THEN [s EXCEPT !.others =
                             IF IsLive(s.request)
                             THEN @ (+) SetToBag({[s.request EXCEPT !.aborted = TRUE]})
                             ELSE @,
                           !.request = NoRequest]
            ELSE s
      s2 == [s1 EXCEPT !.headers = defaultHeaders,
                       !.responseText = <<>>,
                       !.errorFlag = TRUE]
      s3 == IF /\ s2.readyState # UNSENT
               /\ (s2.readyState # OPENED \/ s2.sendFlag)
               /\ s2.readyState # DONE
            THEN setState([s2 EXCEPT !.sendFlag = FALSE], DONE)
            ELSE s2
  IN IF s3.fault THEN s3 ELSE [s3 EXCEPT !.readyState = UNSENT]

(* ----------------------------- transport ------------------------------ *)

\* http.request(options, responseHandler).on('error', errorHandler): the
\* request the transport now holds, with the options it was given.
Options(method, hostname, port, path, hdrs, body) ==
  [method |-> method, hostname |-> hostname, port |-> port, path |-> path,
   headers |-> hdrs, body |-> body]

\* request = doRequest(options, responseHandler): the request var request
\* referred to, if still live, stays with the transport.
doRequest(s, options) ==
  [s EXCEPT !.others = IF IsLive(s.request) THEN @ (+) SetToBag({s.request}) ELSE @,
            !.request = NewRequest,
            !.issued = Append(@, options)]

LocationName == <<"l","o","c","a","t","i","o","n">>

\* response.headers[name]: the value under a (lower-cased) key, '' when the
\* key is absent (undefined is falsy as well).
HeaderOf(rheaders, name) ==
  IF \E k \in 1..Len(rheaders) : rheaders[k].n = name
  THEN rheaders[CHOOSE k \in 1..Len(rheaders) : rheaders[k].n = name].v
  ELSE <<>>

(* --------------------------- public methods --------------------------- *)

\* A TypeError unwinding the call is what the call throws.
Result(s, err, ret) ==
  IF s.fault
  THEN [s |-> s, err |-> "TypeError", ret |-> RetUndefined]
  ELSE [s |-> s, err |-> err, ret |-> ret]

open(s, method, url, async, user) ==
  LET s0 == abort(s)
      s1 == [s0 EXCEPT !.errorFlag = FALSE]
  IN IF s0.fault
     THEN Result(s0, "", RetUndefined)
     ELSE IF ~isAllowedHttpMethod(method)
     THEN Result(s1, "SecurityError", RetUndefined)
     ELSE Result(setState([s1 EXCEPT !.settings =
                             [method |-> method, url |-> url,
                              async |-> IF async = "undefined" THEN "true" ELSE async,
                              user |-> user]],
                          OPENED),
                 "", RetUndefined)

setDisableHeaderCheck(s, state) ==
  Result([s EXCEPT !.disableHeaderCheck = state], "", RetUndefined)

\* setRequestHeader without the test of the header name.
setRequestHeader_NoHeaderCheck(s, header, value) ==
  IF s.readyState # OPENED
  THEN Result(s, "INVALID_STATE_ERR", RetUndefined)
  ELSE IF s.sendFlag
  THEN Result(s, "INVALID_STATE_ERR", RetUndefined)
  ELSE Result([s EXCEPT !.headers =
                 [n \in DOMAIN s.headers \cup {header} |->
                    IF n = header THEN value ELSE s.headers[n]]],
              "", RetBool(TRUE))

setRequestHeader(s, header, value) ==
  IF s.readyState # OPENED
  THEN Result(s, "INVALID_STATE_ERR", RetUndefined)
  ELSE IF ~isAllowedHttpHeader(s, header)
  THEN Result(s, "", RetBool(FALSE))
  ELSE IF s.sendFlag
  THEN Result(s, "INVALID_STATE_ERR", RetUndefined)
  ELSE Result([s EXCEPT !.headers =
                 [n \in DOMAIN s.headers \cup {header} |->
                    IF n = header THEN value ELSE s.headers[n]]],
              "", RetBool(TRUE))

getResponseHeader(s, header) ==
  IF s.readyState > OPENED
  THEN IF ~s.response.defined
       THEN Result(s, "TypeError", RetUndefined)
       ELSE IF /\ Truthy(HeaderOf(s.response.headers, toLowerCase(header)))
               /\ ~s.errorFlag
            THEN Result(s, "", RetString(HeaderOf(s.response.headers,
                                                  toLowerCase(header))))
            ELSE Result(s, "", RetNull)
  ELSE Result(s, "", RetNull)

RECURSIVE HeaderLines(_)
\* The loop of getAllResponseHeaders over response.headers, in key order.
HeaderLines(rheaders) ==
  IF rheaders = <<>>
  THEN <<>>
  ELSE LET h == Head(rheaders)
       IN (IF /\ h.n # <<"s","e","t","-","c","o","o","k","i","e">>
              /\ h.n # <<"s","e","t","-","c","o","o","k","i","e","2">>
           THEN h.n \o <<":", " ">> \o h.v \o <<"\r", "\n">>
           ELSE <<>>)
          \o HeaderLines(Tail(rheaders))

\* result.substr(0, result.length - 2)
DropLastTwo(str) == IF Len(str) < 2 THEN <<>> ELSE SubSeq(str, 1, Len(str) - 2)

getAllResponseHeaders(s) ==
  IF s.readyState < HEADERS_RECEIVED \/ s.errorFlag
  THEN Result(s, "", RetString(<<>>))
  ELSE IF ~s.response.defined
  THEN Result(s, "TypeError", RetUndefined)
  ELSE Result(s, "", RetString(DropLastTwo(HeaderLines(s.response.headers))))

\* headers[name] = value
SetHeader(hdrs, name, value) ==
  [n \in DOMAIN hdrs \cup {name} |-> IF n = name THEN value ELSE hdrs[n]]

\* send(), from the Host header on: the part that runs once the protocol
\* has been accepted.  ssl and url are the locals of send().
sendRequest(s, data, ssl, hostname, url) ==
  LET portIsDefault == ~Truthy(url.port)
      port == IF portIsDefault
              THEN (IF ssl THEN <<"443">> ELSE <<"80">>)
              ELSE url.port
      uri == <<url.pathname, url.search>>
      host == IF \/ (ssl /\ portIsDefault /\ port = <<"443">>)
                 \/ (portIsDefault /\ port = <<"80">>)
              THEN url.hostname
              ELSE url.hostname \o <<":">> \o url.port
      h1 == SetHeader(s.headers, HostName, host)
      h2 == IF Truthy(s.settings.user)
            THEN SetHeader(h1, AuthorizationName,
                           <<"Basic ">> \o s.settings.user \o <<":", "null">>)
            ELSE h1
      body == IF s.settings.method = "GET" \/ s.settings.method = "HEAD"
              THEN <<>>
              ELSE data
      h3 == IF s.settings.method = "GET" \/ s.settings.method = "HEAD"
            THEN h2
            ELSE IF Truthy(data)
            THEN LET h == SetHeader(h2, ContentLengthName, ByteLength(data))
                 IN IF ContentTypeName \in DOMAIN h /\ Truthy(h[ContentTypeName])
                    THEN h
                    ELSE SetHeader(h, ContentTypeName, <<"text/plain;charset=UTF-8">>)
            ELSE IF s.settings.method = "POST"
            THEN SetHeader(h2, ContentLengthName, <<"0">>)
            ELSE h2
      s1 == [s EXCEPT !.headers = h3, !.errorFlag = FALSE]
  IN IF s1.settings.async = "true"
     THEN LET s2 == dispatchEvent([s1 EXCEPT !.sendFlag = TRUE], "readystatechange")
              s3 == doRequest(s2, Options(s2.settings.method, hostname, port,
                                          uri, s2.headers, body))
          IN IF s2.fault
             THEN Result(s2, "", RetUndefined)
             ELSE Result(dispatchEvent(s3, "loadstart"), "", RetUndefined)
     ELSE Result(s1, "Synchronous requests are not supported", RetUndefined)

\* send without the sendFlag check.
send_NoSendFlagCheck(s, data) ==
  IF s.readyState # OPENED
  THEN Result(s, "INVALID_STATE_ERR", RetUndefined)
  ELSE LET url == UrlParse(s.settings.url)
       IN CASE url.protocol = "https:" -> sendRequest(s, data, TRUE, url.hostname, url)
            [] url.protocol = "http:" -> sendRequest(s, data, FALSE, url.hostname, url)
            [] url.protocol = "file:" ->
                 Result(s, "The local option is not supported", RetUndefined)
            [] url.protocol = "" -> sendRequest(s, data, FALSE, <<"localhost">>, url)
            [] OTHER -> Result(s, "Protocol not supported", RetUndefined)

send(s, data) ==
  IF s.readyState # OPENED
  THEN Result(s, "INVALID_STATE_ERR", RetUndefined)
  ELSE IF s.sendFlag
  THEN Result(s, "INVALID_STATE_ERR", RetUndefined)
  ELSE LET url == UrlParse(s.settings.url)
       IN CASE url.protocol = "https:" -> sendRequest(s, data, TRUE, url.hostname, url)
            [] url.protocol = "http:" -> sendRequest(s, data, FALSE, url.hostname, url)
            [] url.protocol = "file:" ->
                 Result(s, "The local option is not supported", RetUndefined)
            [] url.protocol = "" -> sendRequest(s, data, FALSE, <<"localhost">>, url)
            [] OTHER -> Result(s, "Protocol not supported", RetUndefined)

(* ------------------------ transport callbacks ------------------------- *)

\* A status code as the text the observer logs.
CodeName(statusCode) ==
  CASE statusCode = 200 -> "200" [] statusCode = 302 -> "302"
    [] statusCode = 303 -> "303" [] OTHER -> "307"

IsRedirect(statusCode) == statusCode = 302 \/ statusCode = 303 \/ statusCode = 307

\* responseHandler repeating the method on every redirect.
responseHandler_SameMethod(s, resp) ==
  LET s1 == [s EXCEPT !.response = [defined |-> TRUE, headers |-> resp.headers]]
  IN IF IsRedirect(resp.statusCode)
     THEN LET s2 == [s1 EXCEPT !.settings.url = HeaderOf(resp.headers, LocationName)[1]]
              url == UrlParse(s2.settings.url)
          IN doRequest(s2, Options(s2.settings.method,
                                   url.hostname, url.port, <<url.path>>,
                                   s2.headers, <<>>))
     ELSE LET s3 == setState(s1, HEADERS_RECEIVED)
          IN IF s3.fault THEN s3 ELSE [s3 EXCEPT !.status = resp.statusCode]

\* responseHandler(resp)
responseHandler(s, resp) ==
  LET s1 == [s EXCEPT !.response = [defined |-> TRUE, headers |-> resp.headers]]
  IN IF IsRedirect(resp.statusCode)
     THEN LET s2 == [s1 EXCEPT !.settings.url = HeaderOf(resp.headers, LocationName)[1]]
              url == UrlParse(s2.settings.url)
          IN doRequest(s2, Options(IF resp.statusCode = 303
                                   THEN "GET"
                                   ELSE s2.settings.method,
                                   url.hostname, url.port, <<url.path>>,
                                   s2.headers, <<>>))
     ELSE LET s3 == setState(s1, HEADERS_RECEIVED)
          IN IF s3.fault THEN s3 ELSE [s3 EXCEPT !.status = resp.statusCode]

\* response.on('data', ...)
onData(s, chunk) ==
  LET s1 == IF Truthy(chunk)
            THEN [s EXCEPT !.responseText = @ \o chunk]
            ELSE s
  IN IF s1.sendFlag THEN setState(s1, LOADING) ELSE s1

\* response.on('end', ...) without the setState(DONE).
onEnd_NoSetState(s) ==
  IF s.sendFlag
  THEN [s EXCEPT !.sendFlag = FALSE]
  ELSE s

\* response.on('end', ...)
onEnd(s) ==
  IF s.sendFlag
  THEN setState([s EXCEPT !.sendFlag = FALSE], DONE)
  ELSE s

(* ------------------------------ actions ------------------------------- *)

\* The observer of a run.  With log = FALSE it keeps, in trace, the events
\* the last call or callback dispatched.  With log = TRUE it keeps every
\* call, callback and event since the start of the run, in order.
Observe(log, op, arg) ==
  IF log
  THEN [Cur EXCEPT !.trace = Append(@, CallEntry(op, arg))]
  ELSE [Cur EXCEPT !.trace = <<>>]

\* The callbacks registered, counted over all events.
ListenerCount(registered) ==
  Cardinality(UNION {{<<event, i>> : i \in 1..Len(registered[event])} :
                       event \in DOMAIN registered})

\* A call on the instance with outcome r (named done, so that it is
\* evaluated once): its effect and its record.
Perform(op, r) ==
  \E done \in {r} :
    /\ BagCardinality(done.s.others) <= MaxOthers
    /\ ListenerCount(done.s.listeners) <= MaxListeners
    /\ Commit(done.s)
    /\ call' = Called(op, done)

Open(log) ==
  \E c \in OpenCalls :
    Perform("open",
            open(Observe(log, "open", <<c[1], c[2], c[3]>>), c[1], c[2], c[3], c[4]))

SetDisableHeaderCheck(log) ==
  \E state \in BOOLEAN :
    Perform("setDisableHeaderCheck",
            setDisableHeaderCheck(Observe(log, "setDisableHeaderCheck", <<>>), state))

SetRequestHeader(log) ==
  \E header \in HeaderNames, value \in HeaderValues :
    Perform("setRequestHeader",
            setRequestHeader(Observe(log, "setRequestHeader", <<>>), header, value))

Send(log) ==
  \E data \in Bodies :
    Perform("send", send(Observe(log, "send", <<>>), data))

Abort(log) ==
  Perform("abort", Result(abort(Observe(log, "abort", <<>>)), "", RetUndefined))

\* The requests the transport may call back for: the one var request holds,
\* while live, and the others.
Targets ==
  {[cur |-> TRUE, r |-> request] : x \in IF IsLive(request) THEN {TRUE} ELSE {}}
    \cup {[cur |-> FALSE, r |-> o] : o \in BagToSet(others)}

\* Instance s once the transport has moved request t on to r2.
Transport(s, t, r2) ==
  IF t.cur
  THEN [s EXCEPT !.request = r2]
  ELSE [s EXCEPT !.others = (@ (-) SetToBag({t.r}))
                              (+) (IF IsLive(r2) THEN SetToBag({r2}) ELSE EmptyBag)]

\* The transport answers request t with a status line and headers:
\* responseHandler runs.  A redirect carries a Location header and is the
\* last callback of its request.
onResponse(s, t, statusCode, rheaders, location) ==
  responseHandler(
    Transport(s, t, IF IsRedirect(statusCode)
                    THEN FinishedRequest
                    ELSE [t.r EXCEPT !.phase = "headers"]),
    [statusCode |-> statusCode,
     headers |-> IF IsRedirect(statusCode)
                 THEN rheaders \o <<[n |-> LocationName, v |-> <<location>>]>>
                 ELSE rheaders])

\* The response to request t delivers a body chunk.
onChunk(s, t, chunk) ==
  onData(Transport(s, t, [t.r EXCEPT !.chunks = @ + 1]), chunk)

\* The response to request t ends.
onEnded(s, t) == onEnd(Transport(s, t, FinishedRequest))

\* Request t fails before a response (errorHandler) or its response stream
\* fails (response.on('error')): both run handleError.
onError(s, t) == handleError(Transport(s, t, FinishedRequest))

Response(log) ==
  \E t \in Targets, statusCode \in StatusCodes,
     rheaders \in ResponseHeaderSets, location \in Locations :
    /\ t.r.phase = "pending"
    /\ Perform("response",
               Result(onResponse(Observe(log, "response", <<CodeName(statusCode)>>),
                                 t, statusCode, rheaders, location),
                      "", RetUndefined))

Data(log) ==
  \E t \in Targets :
    /\ t.r.phase = "headers"
    /\ t.r.chunks < MaxChunks
    /\ \E chunk \in Chunks(t.r.chunks + 1) :
         Perform("data",
                 Result(onChunk(Observe(log, "data", chunk), t, chunk),
                        "", RetUndefined))

End(log) ==
  \E t \in Targets :
    /\ t.r.phase = "headers"
    /\ Perform("end", Result(onEnded(Observe(log, "end", <<>>), t), "", RetUndefined))

Error(log) ==
  \E t \in Targets :
    /\ IsLive(t.r)
    /\ Perform("error", Result(onError(Observe(log, "error", <<>>), t), "", RetUndefined))

Next ==
  \/ Open(FALSE)
  \/ SetDisableHeaderCheck(FALSE)
  \/ SetRequestHeader(FALSE)
  \/ Send(FALSE)
  \/ Abort(FALSE)
  \/ Response(FALSE)
  \/ Data(FALSE)
  \/ End(FALSE)
  \/ Error(FALSE)

Spec == Init /\ [][Next]_vars

\* The caller registers and removes listeners, assigns on<event> fields and
\* dispatches events itself.
AddEventListener(log) ==
  \E event \in EventNames, callback \in Callbacks :
    Perform("addEventListener",
            Result(addEventListener(Observe(log, "addEventListener", <<>>),
                                    event, callback),
                   "", RetUndefined))

RemoveEventListener(log) ==
  \E event \in EventNames, callback \in Callbacks :
    Perform("removeEventListener",
            Result(removeEventListener(Observe(log, "removeEventListener", <<>>),
                                       event, callback),
                   "", RetUndefined))

AssignOn(log) ==
  \E event \in EventNames, callback \in SlotValues :
    Perform("on",
            Result([Observe(log, "on", <<>>) EXCEPT !.onSlots[event] = callback],
                   "", RetUndefined))

DispatchEvent(log) ==
  \E event \in EventNames :
    Perform("dispatchEvent",
            Result(dispatchEvent(Observe(log, "dispatchEvent", <<>>), event),
                   "", RetUndefined))

\* The instance with listeners: the caller's calls, no transport callback.
NextListeners ==
  \/ AddEventListener(FALSE)
  \/ RemoveEventListener(FALSE)
  \/ AssignOn(FALSE)
  \/ DispatchEvent(FALSE)
  \/ Open(FALSE)
  \/ Send(FALSE)
  \/ Abort(FALSE)

SpecListeners == Init /\ [][NextListeners]_vars

\* One instance, opened once, observed from construction on: trace is the
\* log of every call and callback with the events each dispatched, up to
\* MaxLog entries.
NextExchange ==
  \/ (trace = <<>> /\ Open(TRUE))
  \/ (Len(trace) < MaxLog /\ Send(TRUE))
  \/ (Len(trace) < MaxLog /\ Abort(TRUE))
  \/ (Len(trace) < MaxLog /\ Response(TRUE))
  \/ (Len(trace) < MaxLog /\ Data(TRUE))
  \/ (Len(trace) < MaxLog /\ End(TRUE))
  \/ (Len(trace) < MaxLog /\ Error(TRUE))

SpecExchange == Init /\ [][NextExchange]_vars

\* The redirect responses a log records.
RedirectsIn(entries) ==
  Cardinality({i \in 1..Len(entries) :
                 /\ entries[i].k = "call"
                 /\ entries[i].e = "response"
                 /\ entries[i].a # <<"200">>})

\* A callback of the transport: a response, of which at most MaxRedirects
\* in a run are redirects, a body chunk, the end of a response or an error.
Delivery ==
  \/ Error(TRUE)
  \/ End(TRUE)
  \/ Data(TRUE)
  \/ (Response(TRUE) /\ RedirectsIn(trace') <= MaxRedirects)

\* One instance, opened once and never aborted, observed from construction
\* on, on a transport that delivers its callbacks fairly: a request is
\* answered with a response or an error, a response that is not a redirect
\* ends or fails.
NextDelivery ==
  \/ (trace = <<>> /\ Open(TRUE))
  \/ (Len(trace) < MaxLog /\ Send(TRUE))
  \/ Delivery

SpecDelivery == Init /\ [][NextDelivery]_vars /\ WF_vars(Delivery)

(* ------------------------------- claims ------------------------------- *)

\* The instance as a call or callback made now finds it; what the call
\* dispatches and hands to the transport is then in .trace and .issued.
Now == [Cur EXCEPT !.trace = <<>>]

\* C1: whenever an exchange has reached readyState DONE, open() with an
\* allowed method and an http(s) URL followed by an asynchronous send() is
\* accepted without an invalid-state error and issues one new transport
\* request.
C1_ReusableAfterDone ==
  readyState = DONE =>
    \A c \in OpenCalls, data \in Bodies :
      (/\ isAllowedHttpMethod(c[1])
       /\ c[3] # "false"
       /\ UrlParse(c[2]).protocol \in {"http:", "https:"}) =>
        LET o == open(Now, c[1], c[2], c[3], c[4])
            r == send(o.s, data)
        IN /\ o.err = ""
           /\ r.err # "INVALID_STATE_ERR"
           /\ Len(r.s.issued) = 1

\* C2: send() with readyState other than OPENED, or with sendFlag already
\* true, throws an invalid-state error, hands nothing to the transport and
\* changes nothing (readyState, sendFlag, errorFlag, headers, responseText
\* included).
C2_SendInvalidState ==
  (readyState # OPENED \/ sendFlag) =>
    \A data \in Bodies :
      LET r == send(Now, data)
      IN /\ r.err = "INVALID_STATE_ERR"
         /\ r.s.issued = <<>>
         /\ r.s = Now

\* C2 happens: a send() before any open() has thrown the invalid-state error.
C2_Witness ==
  /\ call.op = "send"
  /\ call.err = "INVALID_STATE_ERR"
  /\ readyState = UNSENT
  /\ settings.url = "undefined"

\* C3: in state OPENED after an open() with async=false, send() throws one
\* of the "not supported" errors, hands nothing to the transport, leaves
\* sendFlag false and readyState OPENED and dispatches no event.
C3_SyncSendNotSupported ==
  (readyState = OPENED /\ settings.async = "false") =>
    \A data \in Bodies :
      LET r == send(Now, data)
      IN /\ r.err \in {"Synchronous requests are not supported",
                       "The local option is not supported",
                       "Protocol not supported"}
         /\ r.s.issued = <<>>
         /\ ~r.s.sendFlag
         /\ r.s.readyState = OPENED
         /\ r.s.trace = <<>>

\* C4: setRequestHeader throws an invalid-state error for every header name
\* whenever readyState is not OPENED or sendFlag is true; it returns false
\* without throwing only when readyState is OPENED and sendFlag is false.
C4_SetRequestHeaderInvalidState ==
  \A header \in HeaderNames, value \in HeaderValues :
    LET r == setRequestHeader(Now, header, value)
    IN /\ (readyState # OPENED \/ sendFlag) => r.err = "INVALID_STATE_ERR"
       /\ (r.err = "" /\ r.ret = RetBool(FALSE)) => (readyState = OPENED /\ ~sendFlag)

\* C5 as stated: in OPENED with no send started, a forbidden name in any
\* letter case is refused (false, header map unchanged) while validation is
\* enabled; after setDisableHeaderCheck(true) the call returns true and the
\* next send() hands the transport a header map with that name and value.
C5_ForbiddenHeaderVerbatim ==
  (readyState = OPENED /\ ~sendFlag) =>
    \A header \in HeaderNames, value \in HeaderValues :
      ~NotIn(forbiddenRequestHeaders, toLowerCase(header)) =>
        LET refused == setRequestHeader(setDisableHeaderCheck(Now, FALSE).s,
                                        header, value)
            accepted == setRequestHeader(setDisableHeaderCheck(Now, TRUE).s,
                                         header, value)
        IN /\ refused.err = ""
           /\ refused.ret = RetBool(FALSE)
           /\ refused.s.headers = headers
           /\ accepted.err = ""
           /\ accepted.ret = RetBool(TRUE)
           /\ \A data \in Bodies :
                LET r == send(accepted.s, data)
                IN r.err = "" =>
                     /\ Len(r.s.issued) = 1
                     /\ header \in DOMAIN r.s.issued[1].headers
                     /\ r.s.issued[1].headers[header] = value

\* C5: as above, the header reaching the transport verbatim unless its name
\* is exactly one that send() writes itself ('Host', 'Content-Length').
C5_ForbiddenHeaderVerbatimUnlessWritten ==
  (readyState = OPENED /\ ~sendFlag) =>
    \A header \in HeaderNames, value \in HeaderValues :
      ~NotIn(forbiddenRequestHeaders, toLowerCase(header)) =>
        LET refused == setRequestHeader(setDisableHeaderCheck(Now, FALSE).s,
                                        header, value)
            accepted == setRequestHeader(setDisableHeaderCheck(Now, TRUE).s,
                                         header, value)
        IN /\ refused.err = ""
           /\ refused.ret = RetBool(FALSE)
           /\ refused.s.headers = headers
           /\ accepted.err = ""
           /\ accepted.ret = RetBool(TRUE)
           /\ header \notin {HostName, ContentLengthName} =>
                \A data \in Bodies :
                  LET r == send(accepted.s, data)
                  IN r.err = "" =>
                       /\ Len(r.s.issued) = 1
                       /\ header \in DOMAIN r.s.issued[1].headers
                       /\ r.s.issued[1].headers[header] = value

\* C5 happens: with the check disabled 'Cookie' was set and a send() has
\* handed the header map, 'Cookie' in it, to the transport.
C5_Witness ==
  /\ call.op = "send"
  /\ call.err = ""
  /\ disableHeaderCheck
  /\ <<"C","o","o","k","i","e">> \in DOMAIN headers
  /\ headers[<<"C","o","o","k","i","e">>] = <<"x">>
  /\ request = NewRequest

\* C7: abort() with an exchange in flight (OPENED with send issued,
\* HEADERS_RECEIVED or LOADING) aborts the request held, dispatches exactly
\* one event, a readystatechange seen with readyState DONE and errorFlag
\* set (so neither load nor loadend), and leaves readyState UNSENT,
\* responseText empty and headers at their defaults, after which
\* getAllResponseHeaders() returns ''.  abort() in UNSENT, or in OPENED
\* with no send issued, dispatches nothing.
C7_Abort ==
  LET r == abort(Now)
  IN /\ ((readyState = OPENED /\ sendFlag)
           \/ readyState \in {HEADERS_RECEIVED, LOADING}) =>
          /\ r.trace = <<Event("readystatechange", DONE, TRUE)>>
          /\ r.readyState = UNSENT
          /\ r.responseText = <<>>
          /\ r.headers = defaultHeaders
          /\ r.request = NoRequest
          /\ IsLive(request) =>
               r.others = others (+) SetToBag({[request EXCEPT !.aborted = TRUE]})
          /\ getAllResponseHeaders(r) = Result(r, "", RetString(<<>>))
     /\ (readyState = UNSENT \/ (readyState = OPENED /\ ~sendFlag)) =>
          r.trace = <<>>

\* C7 happens: an abort() has cancelled a request in flight and dispatched
\* the one readystatechange.
C7_Witness ==
  /\ call.op = "abort"
  /\ trace = <<Event("readystatechange", DONE, TRUE)>>
  /\ readyState = UNSENT
  /\ \E o \in BagToSet(others) : o.aborted

\* C8: a response with status 302, 303 or 307 to the request held hands the
\* transport exactly one new request, for the Location target, with the
\* current header map, method GET on 303 and the method set by open()
\* otherwise; it leaves readyState, status and responseText as they were
\* and dispatches no event.
C8_Redirect ==
  \A t \in Targets, statusCode \in StatusCodes,
     rheaders \in ResponseHeaderSets, location \in Locations :
    (t.cur /\ t.r.phase = "pending" /\ statusCode \in {302, 303, 307}) =>
      LET r == onResponse(Now, t, statusCode, rheaders, location)
          url == UrlParse(location)
      IN /\ Len(r.issued) = 1
         /\ r.issued[1].hostname = url.hostname
         /\ r.issued[1].port = url.port
         /\ r.issued[1].path = <<url.path>>
         /\ r.issued[1].headers = headers
         /\ r.issued[1].method = (IF statusCode = 303 THEN "GET" ELSE settings.method)
         /\ r.settings.method = settings.method
         /\ r.readyState = readyState
         /\ r.status = status
         /\ r.responseText = responseText
         /\ r.trace = <<>>

\* C8 happens: a redirect of a POST exchange has been followed.
C8_Witness ==
  /\ call.op = "response"
  /\ response.defined
  /\ Truthy(HeaderOf(response.headers, LocationName))
  /\ request = NewRequest
  /\ settings.method = "POST"
  /\ readyState = OPENED
  /\ sendFlag

\* C9: a transport error for a request of an exchange in flight (OPENED
\* with send issued, HEADERS_RECEIVED or LOADING) leaves readyState DONE,
\* status 503 and errorFlag set, and dispatches exactly one event, the
\* readystatechange of the transition to DONE (neither load nor loadend).
C9_TransportError ==
  \A t \in Targets :
    (/\ IsLive(t.r)
     /\ (readyState = OPENED /\ sendFlag)
          \/ readyState \in {HEADERS_RECEIVED, LOADING}) =>
      LET r == onError(Now, t)
      IN /\ r.readyState = DONE
         /\ r.status = StatusUnavailable
         /\ r.errorFlag
         /\ r.trace = <<Event("readystatechange", DONE, TRUE)>>

\* C9 happens: the response stream of the request held has failed.
C9_Witness ==
  /\ call.op = "error"
  /\ call.err = ""
  /\ readyState = DONE
  /\ status = StatusUnavailable
  /\ errorFlag
  /\ trace = <<Event("readystatechange", DONE, TRUE)>>
  /\ request = FinishedRequest
  /\ response.defined

\* C10: whenever errorFlag is set, getResponseHeader(name) returns null for
\* every name and getAllResponseHeaders() returns '', neither throwing.
C10_GettersAfterError ==
  errorFlag =>
    /\ \A header \in QueriedNames :
         getResponseHeader(Now, header) = Result(Now, "", RetNull)
    /\ getAllResponseHeaders(Now) = Result(Now, "", RetString(<<>>))

\* The calls and callbacks of a log, and the events of a log, in order.
CallsOf(log) == SelectSeq(log, LAMBDA x : x.k = "call")
EventsOf(log) == SelectSeq(log, LAMBDA x : x.k = "event")

\* The log is that of one successful exchange: open, send, a response with
\* status 200, the chunks "1" and "2", the end of the stream.
SuccessfulExchange ==
  LET calls == CallsOf(trace)
  IN /\ Len(calls) = 6
     /\ calls[1].e = "open"
     /\ calls[2] = CallEntry("send", <<>>)
     /\ calls[3] = CallEntry("response", <<"200">>)
     /\ calls[4] = CallEntry("data", <<"1">>)
     /\ calls[5] = CallEntry("data", <<"2">>)
     /\ calls[6] = CallEntry("end", <<>>)

\* C6 as stated: a successful asynchronous exchange dispatches exactly
\* readystatechange(OPENED), loadstart, readystatechange(HEADERS_RECEIVED),
\* readystatechange(LOADING) twice, readystatechange(DONE), load, loadend,
\* and responseText ends as the two chunks in arrival order.
C6_EventsLoadingPerChunk ==
  SuccessfulExchange =>
    /\ EventsOf(trace) =
         << Event("readystatechange", OPENED, FALSE),
            Event("loadstart", OPENED, FALSE),
            Event("readystatechange", HEADERS_RECEIVED, FALSE),
            Event("readystatechange", LOADING, FALSE),
            Event("readystatechange", LOADING, FALSE),
            Event("readystatechange", DONE, FALSE),
            Event("load", DONE, FALSE),
            Event("loadend", DONE, FALSE) >>
    /\ responseText = <<"1", "2">>

\* C6: a successful asynchronous exchange dispatches exactly
\* readystatechange(OPENED) at open, readystatechange(OPENED) again and
\* loadstart at send, readystatechange(HEADERS_RECEIVED) at the response,
\* readystatechange(LOADING) at the first chunk and nothing at the second,
\* readystatechange(DONE), load, loadend at the end, and responseText ends
\* as the two chunks in arrival order.
C6_EventsLoadingOnce ==
  SuccessfulExchange =>
    /\ trace =
         << CallEntry("open", trace[1].a),
            Event("readystatechange", OPENED, FALSE),
            CallEntry("send", <<>>),
            Event("readystatechange", OPENED, FALSE),
            Event("loadstart", OPENED, FALSE),
            CallEntry("response", <<"200">>),
            Event("readystatechange", HEADERS_RECEIVED, FALSE),
            CallEntry("data", <<"1">>),
            Event("readystatechange", LOADING, FALSE),
            CallEntry("data", <<"2">>),
            CallEntry("end", <<>>),
            Event("readystatechange", DONE, FALSE),
            Event("load", DONE, FALSE),
            Event("loadend", DONE, FALSE) >>
    /\ responseText = <<"1", "2">>

\* C6 happens: a successful exchange has run to its end.
C6_Witness ==
  /\ SuccessfulExchange
  /\ call.op = "end"
  /\ readyState = DONE
  /\ ~errorFlag
  /\ status = 200

\* The readystatechange events of a log.
ReadyStateChanges(log) == SelectSeq(log, LAMBDA x : x.e = "readystatechange")

\* C11 as stated: open() with an allowed method, whatever the async flag,
\* leaves readyState OPENED and dispatches the readystatechange of that
\* transition once; once an open() has been made, setState dispatches
\* readystatechange exactly once when it changes readyState and nothing
\* when called with the current state.
C11_ReadyStateChangePerTransition ==
  /\ \A c \in OpenCalls :
       isAllowedHttpMethod(c[1]) =>
         LET r == open(Now, c[1], c[2], c[3], c[4])
         IN /\ r.err = ""
            /\ r.s.readyState = OPENED
            /\ SelectSeq(r.s.trace, LAMBDA x : x.s = OPENED)
                 = <<Event("readystatechange", OPENED, FALSE)>>
  /\ settings.async # "undefined" =>
       \A state \in {OPENED, HEADERS_RECEIVED, LOADING, DONE} :
         LET r == setState(Now, state)
         IN /\ state # readyState => Len(ReadyStateChanges(r.trace)) = 1
            /\ state = readyState => r = Now

\* C11: open() with an allowed method leaves readyState OPENED, and
\* dispatches the readystatechange of that transition once unless async is
\* false, when it dispatches none; setState dispatches readystatechange
\* exactly once when it changes readyState and the exchange is asynchronous
\* or the new state is DONE, none when it changes readyState otherwise, and
\* does nothing when called with the current state.
C11_ReadyStateChangeGated ==
  /\ \A c \in OpenCalls :
       isAllowedHttpMethod(c[1]) =>
         LET r == open(Now, c[1], c[2], c[3], c[4])
         IN /\ r.err = ""
            /\ r.s.readyState = OPENED
            /\ SelectSeq(r.s.trace, LAMBDA x : x.s = OPENED)
                 = IF c[3] = "false"
                   THEN <<>>
                   ELSE <<Event("readystatechange", OPENED, FALSE)>>
  /\ \A state \in {OPENED, HEADERS_RECEIVED, LOADING, DONE} :
       LET r == setState(Now, state)
       IN /\ state # readyState =>
               /\ r.readyState = state
               /\ Len(ReadyStateChanges(r.trace))
                    = IF settings.async = "true" \/ state = DONE THEN 1 ELSE 0
          /\ state = readyState => r = Now

\* C11 happens: an open() with async=false has left readyState OPENED and
\* dispatched nothing.
C11_Witness ==
  /\ call.op = "open"
  /\ call.err = ""
  /\ settings.async = "false"
  /\ readyState = OPENED
  /\ trace = <<>>

\* C13: sendFlag is true only while an exchange is in progress: whenever
\* sendFlag is true readyState is OPENED, HEADERS_RECEIVED or LOADING (so
\* sendFlag is false in DONE and in UNSENT).
C13_SendFlagOnlyInFlight ==
  sendFlag => readyState \in {OPENED, HEADERS_RECEIVED, LOADING}

\* C14: a transport callback (response, data, end, error) never moves
\* readyState to a lower value; in particular from DONE, which only open()
\* or abort() leave.
C14_ReadyStateMonotonic ==
  [][call'.op \in {"response", "data", "end", "error"} =>
       readyState' >= readyState]_vars

\* C16: a data callback of a request that abort() (or the abort() inside
\* open()) has cancelled leaves responseText and readyState as they are and
\* dispatches no event, whatever has been called on the instance since.
C16_AbortedChunkDiscarded ==
  \A t \in Targets :
    (~t.cur /\ t.r.aborted /\ t.r.phase = "headers") =>
      \A chunk \in Chunks(t.r.chunks + 1) :
        LET r == onChunk(Now, t, chunk)
        IN /\ r.responseText = responseText
           /\ r.readyState = readyState
           /\ r.trace = <<>>

\* The requests issued that have neither ended, failed nor been aborted.
Outstanding ==
  (IF IsLive(request) THEN 1 ELSE 0)
    + BagCardinality([o \in {x \in BagToSet(others) : ~x.aborted} |-> others[o]])

\* C17: at most one request issued by the instance is outstanding.
C17_OneOutstandingRequest == Outstanding <= 1

\* The names of a header map that are in the forbidden set, compared as
\* isAllowedHttpHeader compares them.
ForbiddenIn(hdrs) ==
  {n \in DOMAIN hdrs : ~NotIn(forbiddenRequestHeaders, toLowerCase(n))}

\* C15 as stated: while the header check is not disabled the header map
\* holds no name of the forbidden set.
C15_NoForbiddenHeader ==
  ~disableHeaderCheck => ForbiddenIn(headers) = {}

\* C15: a call or callback made while the header check is not disabled
\* adds no forbidden name to the header map other than 'Host' and
\* 'Content-Length', the headers send() writes itself.
C15_NoForbiddenHeaderButWritten ==
  [][(~disableHeaderCheck /\ headers' # headers) =>
       ForbiddenIn(headers') \subseteq
         ForbiddenIn(headers) \cup {HostName, ContentLengthName}]_vars

\* C15 happens: with the header check enabled a send() has written 'Host'
\* and 'Content-Length', the only forbidden names in the map.
C15_Witness ==
  /\ call.op = "send"
  /\ call.err = ""
  /\ ~disableHeaderCheck
  /\ ForbiddenIn(headers) = {HostName, ContentLengthName}

\* The load and loadend events of a log.
LoadEvents(log) == SelectSeq(log, LAMBDA x : x.e \in {"load", "loadend"})

\* C19: load and loadend are dispatched only as the pair load, loadend
\* directly after the readystatechange of a transition into DONE made with
\* errorFlag false, which takes a send() still in progress and ends it;
\* abort(), open() and a transport error dispatch neither, and neither
\* does any callback of a request that has been aborted.
C19_LoadOnlyOnCompletion ==
  /\ LoadEvents(abort(Now).trace) = <<>>
  /\ \A c \in OpenCalls : LoadEvents(open(Now, c[1], c[2], c[3], c[4]).s.trace) = <<>>
  /\ \A data \in Bodies : LoadEvents(send(Now, data).s.trace) = <<>>
  /\ \A t \in Targets :
       /\ LoadEvents(onError(Now, t).trace) = <<>>
       /\ t.r.phase = "pending" =>
            \A statusCode \in StatusCodes, rheaders \in ResponseHeaderSets,
               location \in Locations :
              LoadEvents(onResponse(Now, t, statusCode, rheaders, location).trace) = <<>>
       /\ t.r.phase = "headers" =>
            /\ \A chunk \in Chunks(t.r.chunks + 1) :
                 LoadEvents(onChunk(Now, t, chunk).trace) = <<>>
            /\ LET r == onEnded(Now, t)
               IN LoadEvents(r.trace) # <<>> =>
                    /\ r.trace = << Event("readystatechange", DONE, FALSE),
                                    Event("load", DONE, FALSE),
                                    Event("loadend", DONE, FALSE) >>
                    /\ sendFlag /\ ~r.sendFlag
                    /\ ~t.r.aborted

\* C20: when the response to the request held arrives with its headers, a
\* readystatechange listener that runs with readyState HEADERS_RECEIVED
\* finds status equal to the status code of that response.
C20_StatusAtHeadersReceived ==
  \A t \in Targets, statusCode \in StatusCodes,
     rheaders \in ResponseHeaderSets, location \in Locations :
    (t.cur /\ t.r.phase = "pending" /\ ~IsRedirect(statusCode)) =>
      LET r == onResponse(Now, t, statusCode, rheaders, location)
      IN \A k \in 1..Len(r.seen) :
           (/\ r.seen[k].e = "readystatechange"
            /\ r.seen[k].readyState = HEADERS_RECEIVED) =>
             r.seen[k].status = statusCode

\* The callbacks a dispatch of event is to invoke, in order: the on<event>
\* field if it holds a function, then the listeners registered for the
\* event and not removed since, in registration order.
Registered(event) ==
  (IF onSlots[event] # "null"
   THEN <<Invocation("slot", event, onSlots[event])>>
   ELSE <<>>)
    \o (IF event \in DOMAIN listeners
        THEN [i \in 1..Len(listeners[event]) |->
                Invocation("listener", event, listeners[event][i])]
        ELSE <<>>)

\* C12: dispatching a named event invokes the on<event> field first, if it
\* holds a function, and then every callback registered for the event with
\* addEventListener and not removed before the dispatch, once per
\* registration and in registration order.
C12_DispatchInvokesRegistered ==
  \A event \in EventNames :
    dispatchEvent(Now, event).invoked = Registered(event)

\* C18: dispatching an event never faults because a listener calls a method
\* of the instance during the dispatch: the loop over the listeners
\* completes without error.
C18_DispatchNeverFaults ==
  \A event \in EventNames : ~dispatchEvent(Now, event).fault

\* C21: with no abort() or open() after it, under fair delivery of the
\* transport's callbacks and finitely many redirects, every accepted
\* asynchronous send() eventually brings readyState to DONE.
C21_SendReachesDone ==
  (call.op = "send" /\ call.err = "") ~> (readyState = DONE)

\* An accepted send() was followed by MaxRedirects redirects, a response
\* that is no redirect and its end, and readyState is DONE.
C21_Witness ==
  /\ readyState = DONE
  /\ ~errorFlag
  /\ call.op = "end"
  /\ RedirectsIn(trace) = MaxRedirects
  /\ \E i \in 1..Len(trace) : trace[i].k = "call" /\ trace[i].e = "send"

====
